---- MODULE Spec2Model ----
(***************************************************************************)
(* A model of the tk-katana engine adapter (src/engine.py) and of its      *)
(* loader action hook (src/hooks/tk-katana_actions.py).                    *)
(*                                                                         *)
(* Four specifications share the variables below:                          *)
(*   SpecGenerate  KatanaActions.generate_actions, a pure function         *)
(*   SpecExecute   KatanaActions.execute_action against the host graph     *)
(*   SpecEngine    KatanaEngine: lifecycle, menu callback, launch_command  *)
(*                 and the logging sinks                                   *)
(*   SpecQt        KatanaEngine._define_qt_base and the handles it returns *)
(* A specification leaves the variables of the others at their initial     *)
(* values.                                                                 *)
(*                                                                         *)
(* External collaborators (sgtk, NodegraphAPI, Katana.Callbacks, PyQt4,    *)
(* os.path) are not code of this repository.  Their answers are inputs     *)
(* drawn with \E: whether the path exists, which template and fields the   *)
(* toolkit resolves, how far the PyQt set-up gets.  The toolkit is taken   *)
(* to answer: tank_from_path finds the project of the hardcoded path and   *)
(* template_from_path answers with a template for a path that exists.      *)
(***************************************************************************)
EXTENDS Naturals, Sequences, FiniteSets, TLC

VARIABLES
    gen,                \* the generate_actions call: its input and, once made, its result
    nodes,              \* the host node graph below the root: a sequence of nodes
    call,               \* the last execute_action call: inputs, host API calls, outcome
    stage,              \* how far the framework has driven the engine's lifecycle
    katana_log,         \* KatanaEngine.katana_log
    settings,           \* the engine's settings, read through get_setting
    startup_callbacks,  \* the host's subscribers to Callbacks.Type.onStartupComplete
    menus,              \* the menus built so far, by name
    callback_map,       \* KatanaEngine._callback_map: command id -> callback
    qt_base,            \* the dictionary the last _define_qt_base call returned
    fires,              \* how often the host has fired startup-complete
    stdout,             \* the lines the last operation printed
    op                  \* the last engine operation: what it was and how it ended

hookVars == <<gen, nodes, call>>
engineVars == <<stage, katana_log, settings, startup_callbacks, menus, callback_map,
                qt_base, fires, stdout, op>>
vars == <<gen, nodes, call, stage, katana_log, settings, startup_callbacks, menus,
          callback_map, qt_base, fires, stdout, op>>

(***************************************************************************)
(* Bounds of the model.                                                    *)
(***************************************************************************)
MaxActions == 4         \* longest action list handed to generate_actions
MaxNodes == 2           \* most nodes the graph holds before creation stops
MaxFires == 2           \* most times the host fires startup-complete

(***************************************************************************)
(* KatanaEngine: settings and the logging sinks                            *)
(***************************************************************************)
SettingNames == {"debug_logging", "use_sgtk_as_menu_name"}

\* Every configuration: each setting true, false or not set at all.
SettingsSpace == UNION {[S -> BOOLEAN] : S \in SUBSET SettingNames}

\* self.get_setting(key, default): the configured value, the default when unset.
get_setting(s, key, default) == IF key \in DOMAIN s THEN s[key] ELSE default

Msgs == {"m1", "m2"}

\* A plausible slip: the debug flag is not consulted.
LogDebugUngated(s, msg) == <<"Shotgun Debug: " \o msg>>

\* Each sink is the sequence of lines it prints.
log_debug(s, msg) ==
    IF get_setting(s, "debug_logging", FALSE) THEN <<"Shotgun Debug: " \o msg>> ELSE <<>>

log_info(msg) == <<"Shotgun: " \o msg>>

_display_message(msg) == log_info(msg)

log_error(msg) == _display_message(msg) \o <<"Shotgun Error: " \o msg>>

log_warning(msg) == <<msg>>

\* app.log_debug in the hook: the loader app hands the line to the engine's sink.
AppLogDebug(s, msg) == log_debug(s, msg)

(***************************************************************************)
(* generate_actions                                                        *)
(***************************************************************************)
\* The names the hook recognises, in the order its four tests run.
KnownActions == <<"open_project", "import_look_file", "create_node_Alembic_In",
                  "create_node_ImageRead">>

KnownSet == {KnownActions[i] : i \in DOMAIN KnownActions}

\* Names the loader may be configured with that this hook does not know.
UnknownActions == {"reference", "create_node_Camera"}

ActionNames == KnownSet \cup UnknownActions

\* Python's `x in actions` on a list.
Contains(actions, x) == \E i \in DOMAIN actions : actions[i] = x

\* The four literal dictionaries of generate_actions.
Descriptor(name) ==
    CASE name = "open_project" ->
            [name |-> "open_project", params |-> "None",
             caption |-> "Open Project",
             description |-> "This will open the Katana project file."]
      [] name = "import_look_file" ->
            [name |-> "import_look_file", params |-> "None",
             caption |-> "Import Look File",
             description |-> "This will create an LookFileAssign node corresponding to this published Look File."]
      [] name = "create_node_Alembic_In" ->
            [name |-> "create_node_Alembic_In", params |-> "None",
             caption |-> "Import Alembic",
             description |-> "This will create an Alembic_In node corresponding to this cache."]
      [] name = "create_node_ImageRead" ->
            [name |-> "create_node_ImageRead", params |-> "None",
             caption |-> "Import image",
             description |-> "Creates an ImageRead node for the selected item."]

\* A plausible slip: one descriptor per occurrence instead of per name.
AppendPerOccurrence(action_instances, actions, name) ==
    action_instances \o
        [i \in 1..Cardinality({j \in DOMAIN actions : actions[j] = name}) |-> Descriptor(name)]

\* One `if name in actions: action_instances.append(...)` statement.
AppendIfListed(action_instances, actions, name) ==
    IF Contains(actions, name) THEN Append(action_instances, Descriptor(name))
    ELSE action_instances

generate_actions(actions) ==
    LET a0 == <<>>
        a1 == AppendIfListed(a0, actions, "open_project")
        a2 == AppendIfListed(a1, actions, "import_look_file")
        a3 == AppendIfListed(a2, actions, "create_node_Alembic_In")
        a4 == AppendIfListed(a3, actions, "create_node_ImageRead")
    IN  a4

RECURSIVE SeqsUpTo(_, _)
SeqsUpTo(S, n) ==
    IF n = 0 THEN {<<>>}
    ELSE LET shorter == SeqsUpTo(S, n - 1)
         IN  shorter \cup {Append(s, x) : s \in {t \in shorter : Len(t) = n - 1}, x \in S}

ActionLists == SeqsUpTo(ActionNames, MaxActions)

NoGen == [called |-> FALSE, actions |-> <<>>, action_instances |-> <<>>]

\* The loader calls the hook with the action list it was configured with.
GenerateActions ==
    /\ ~gen.called
    /\ gen' = [called |-> TRUE, actions |-> gen.actions,
               action_instances |-> generate_actions(gen.actions)]
    /\ stdout' = AppLogDebug(settings, "Generate actions called for UI element")
    /\ UNCHANGED <<nodes, call>>
    /\ UNCHANGED <<stage, katana_log, settings, startup_callbacks, menus, callback_map,
                   qt_base, fires, op>>

(***************************************************************************)
(* execute_action and its helpers                                          *)
(***************************************************************************)
\* The toolkit's answers for a path: a template name and the template's fields.
TemplateNames == {"alembic_cache"}

FieldNames == {"SEQ", "Shot", "version"}

\* The value the path gives each field.
FieldValue(k) ==
    IF k = "SEQ" THEN "sq010"
    ELSE IF k = "Shot" THEN "sh020"
    ELSE "v003"

FieldValues == {FieldValue(k) : k \in FieldNames}

\* Every dictionary template.get_fields may return over these names: the
\* fields the template has, each with its value.
FieldDicts == {[k \in S |-> FieldValue(k)] : S \in SUBSET FieldNames}

\* How the toolkit answers on the way to the template and its fields.
\*   resolved     tank_from_path and template_from_path answer
\*   no_project   sgtk.tank_from_path raises TankError: the hardcoded project
\*                path is no toolkit project on this machine
\*   no_template  tk.template_from_path returns None: the path matches no
\*                template, and template.get_fields raises AttributeError
ToolkitAnswers == {"resolved", "no_project", "no_template"}

\* What the call record holds when the toolkit was never asked.
NoToolkit == "unasked"

\* What the call record holds when the toolkit was never asked.
NoTemplate == "unresolved"

NoFields == <<>>

\* Python's None as a return value, and the handle of the i-th node of the graph.
NoneValue == <<"None", 0>>

NodeHandle(i) == <<"node", i>>

\* A plausible slip: the workaround is missing.
KeepSEQ(fields) == fields

\* if fields.has_key("SEQ"): fields.pop("SEQ")
PopSEQ(fields) ==
    IF "SEQ" \in DOMAIN fields THEN [k \in (DOMAIN fields) \ {"SEQ"} |-> fields[k]]
    ELSE fields

\* repr of a Python string.
Quote(s) == "'" \o s \o "'"

\* Every order of the keys in S, as a sequence.
KeyOrders(S) ==
    {p \in [1..Cardinality(S) -> S] : \A i, j \in DOMAIN p : i # j => p[i] # p[j]}

\* The order in which str() walks a dictionary is CPython's hash-slot order.
\* It depends on the interpreter's hash seed and on what the dictionary held
\* before, so it is an input: an order of the keys of the fields dictionary
\* that is printed, and whether 'template' is met before 'fields'.
DictWalks(fields) ==
    {[keys |-> p, template_first |-> t] : p \in KeyOrders(DOMAIN fields), t \in BOOLEAN}

\* What stands for the walk when str() was never reached.
NoWalk == [keys |-> <<>>, template_first |-> FALSE]

\* The "key: value" items of str(fields), comma separated, as tokens: the keys
\* of the dictionary in the order of the walk.
RECURSIVE StrItems(_, _, _, _)
StrItems(fields, keys, i, first) ==
    IF i > Len(keys) THEN <<>>
    ELSE IF keys[i] \in DOMAIN fields
         THEN (IF first THEN <<>> ELSE <<",">>)
              \o <<Quote(keys[i]), ":", Quote(fields[keys[i]])>>
              \o StrItems(fields, keys, i + 1, FALSE)
         ELSE StrItems(fields, keys, i + 1, first)

\* str(parameter_dict), as the sequence of tokens of the printed dictionary:
\* {'fields': {'<k>': '<v>', ...}, 'template': '<name>'}, or 'template' first.
StrDict(parameter_dict, walk) ==
    LET fields_item == <<Quote("fields"), ":", "{">>
                       \o StrItems(parameter_dict.fields, walk.keys, 1, TRUE)
                       \o <<"}">>
        template_item == <<Quote("template"), ":", Quote(parameter_dict.template)>>
    IN  IF walk.template_first
        THEN <<"{">> \o template_item \o <<",">> \o fields_item \o <<"}">>
        ELSE <<"{">> \o fields_item \o <<",">> \o template_item \o <<"}">>

\* The outcome of a helper or of execute_action: whether it raised, what it
\* returned, the graph it leaves and the host API calls it made, in order.
Outcome(raised, error, ret, g, api) ==
    [raised |-> raised, error |-> error, ret |-> ret, nodes |-> g, api |-> api]

\* NodegraphAPI.CreateNode(node_type, parent=root): a new node, no parameter set yet.
CreateNode(g, node_type, parent) ==
    Append(g, [type |-> node_type, parent |-> parent, params |-> <<>>])

\* node.getParameter(name).setValue(value, 0) on the node with handle number n.
SetParameter(g, n, name, value) ==
    [g EXCEPT ![n].params = Append(@, [name |-> name, value |-> value, time |-> "0"])]

\* A plausible slip: the stub opens the project, which replaces the graph.
OpenProjectLoads(exists, g) ==
    IF ~exists THEN Outcome(TRUE, "File not found on disk", NoneValue, g, <<>>)
    ELSE Outcome(FALSE, "", NoneValue, <<>>, <<<<"Load">>>>)

\* def _open_project(self, path, sg_publish_data): return
_open_project(exists, g) == Outcome(FALSE, "", NoneValue, g, <<>>)

\* _create_node past its existence test.  The toolkit is asked for the
\* template and its fields, and an error there leaves before any host call.
\* Then the parameter string is built from the toolkit's answer, the node is
\* created under the root and its parameter set: the host calls are made with
\* a node type and a parameter name of the host's own, and answer.
MakeNode(node_type, toolkit, template, fields, walk, asset_parameter, g) ==
    IF toolkit = "no_project"
    THEN Outcome(TRUE, "TankError", NoneValue, g, <<>>)
    ELSE IF toolkit = "no_template"
         THEN Outcome(TRUE, "AttributeError", NoneValue, g, <<>>)
         ELSE LET parameter_dict == [template |-> template, fields |-> PopSEQ(fields)]
                  g1 == CreateNode(g, node_type, "root")
                  n == Len(g1)
                  g2 == SetParameter(g1, n, asset_parameter, StrDict(parameter_dict, walk))
              IN  Outcome(FALSE, "", NodeHandle(n), g2,
                          <<<<"GetRootNode">>, <<"CreateNode", node_type, "root">>,
                            <<"getParameter", NodeHandle(n), asset_parameter>>,
                            <<"setValue", NodeHandle(n), asset_parameter>>>>)

\* A plausible slip: the existence test is missing.
CreateNodeUnchecked(node_type, exists, toolkit, template, fields, walk, asset_parameter, g) ==
    MakeNode(node_type, toolkit, template, fields, walk, asset_parameter, g)

_create_node(node_type, exists, toolkit, template, fields, walk, asset_parameter, g) ==
    IF ~exists
    THEN Outcome(TRUE, "File not found on disk", NoneValue, g, <<>>)
    ELSE MakeNode(node_type, toolkit, template, fields, walk, asset_parameter, g)

\* One `if name == ...: self.<helper>(...)` statement of execute_action: skipped
\* once an earlier statement raised; the helper's return value is dropped.
Then(prev, helper) ==
    IF prev.raised THEN prev
    ELSE [helper EXCEPT !.api = prev.api \o @]

\* A plausible reading: the node that _create_node made is handed back.
ExecuteReturnsNode(last) == last.ret

\* What execute_action hands back when it ends without raising: it has no
\* return statement.
ExecuteReturn(last) == NoneValue

execute_action(name, exists, toolkit, template, fields, walk, g) ==
    LET s0 == Outcome(FALSE, "", NoneValue, g, <<>>)
        s1 == IF name = "open_project" THEN Then(s0, _open_project(exists, s0.nodes)) ELSE s0
        s2 == IF name = "import_look_file" THEN Then(s1, _open_project(exists, s1.nodes)) ELSE s1
        s3 == IF name = "create_node_Alembic_In"
              THEN Then(s2, _create_node("Alembic_In", exists, toolkit, template, fields, walk,
                                     "abcAsset", s2.nodes))
              ELSE s2
        s4 == IF name = "create_node_ImageRead"
              THEN Then(s3, _create_node("ImageRead", exists, toolkit, template, fields, walk,
                                     "file", s3.nodes))
              ELSE s3
    IN  [raised |-> s4.raised, error |-> s4.error,
         ret |-> IF s4.raised THEN NoneValue ELSE ExecuteReturn(s4),
         node_ret |-> s4.ret, nodes |-> s4.nodes, api |-> s4.api]

CreationActions == {"create_node_Alembic_In", "create_node_ImageRead"}

NoCall == [called |-> FALSE, name |-> "", exists |-> FALSE, toolkit |-> NoToolkit,
           template |-> NoTemplate, fields |-> NoFields, walk |-> NoWalk,
           raised |-> FALSE, error |-> "", ret |-> NoneValue,
           node_ret |-> NoneValue, api |-> <<>>, before |-> <<>>]

\* The loader calls execute_action with any configured name and any publish,
\* on the graph as the calls before have left it.  get_publish_path resolves
\* the publish to a path; os.path.exists and the toolkit answer for that path.
\* The toolkit is asked only on the branch that reaches it, and its template,
\* its fields and the walk of str() are drawn only when it resolves.  The
\* graph is kept to MaxNodes nodes.
ExecuteAction ==
    /\ \E name \in ActionNames, exists \in BOOLEAN :
          LET asked == exists /\ name \in CreationActions
          IN  \E toolkit \in (IF asked THEN ToolkitAnswers ELSE {NoToolkit}) :
                 LET resolved == toolkit = "resolved"
                 IN  /\ resolved => Len(nodes) < MaxNodes
                     /\ \E template \in (IF resolved THEN TemplateNames ELSE {NoTemplate}),
                           fields \in (IF resolved THEN FieldDicts ELSE {NoFields}) :
                           \E walk \in (IF resolved THEN DictWalks(PopSEQ(fields)) ELSE {NoWalk}) :
                           \E r \in {execute_action(name, exists, toolkit, template, fields,
                                                    walk, nodes)} :
                              /\ nodes' = r.nodes
                              /\ call' = [called |-> TRUE, name |-> name, exists |-> exists,
                                          toolkit |-> toolkit, template |-> template,
                                          fields |-> fields, walk |-> walk,
                                          raised |-> r.raised, error |-> r.error,
                                          ret |-> r.ret, node_ret |-> r.node_ret,
                                          api |-> r.api, before |-> nodes]
                     /\ stdout' = AppLogDebug(settings, "Execute action called for action " \o name)
    /\ UNCHANGED gen
    /\ UNCHANGED <<stage, katana_log, settings, startup_callbacks, menus, callback_map,
                   qt_base, fires, op>>

(***************************************************************************)
(* KatanaEngine: the last operation and the sink actions                   *)
(***************************************************************************)
\* The last engine operation.  invoked: the callbacks it called, in order;
\* logged: the records it sent to katana_log.
Op(name, arg, raised, invoked, logged) ==
    [name |-> name, arg |-> arg, raised |-> raised, invoked |-> invoked, logged |-> logged]

NoOp == Op("", "", "", <<>>, <<>>)

LogDebug ==
    /\ \E msg \in Msgs :
          /\ stdout' = log_debug(settings, msg)
          /\ op' = Op("log_debug", msg, "", <<>>, <<>>)
    /\ UNCHANGED <<stage, katana_log, settings, startup_callbacks, menus, callback_map,
                   qt_base, fires>>
    /\ UNCHANGED hookVars

LogInfo ==
    /\ \E msg \in Msgs :
          /\ stdout' = log_info(msg)
          /\ op' = Op("log_info", msg, "", <<>>, <<>>)
    /\ UNCHANGED <<stage, katana_log, settings, startup_callbacks, menus, callback_map,
                   qt_base, fires>>
    /\ UNCHANGED hookVars

LogError ==
    /\ \E msg \in Msgs :
          /\ stdout' = log_error(msg)
          /\ op' = Op("log_error", msg, "", <<>>, <<>>)
    /\ UNCHANGED <<stage, katana_log, settings, startup_callbacks, menus, callback_map,
                   qt_base, fires>>
    /\ UNCHANGED hookVars

LogWarning ==
    /\ \E msg \in Msgs :
          /\ stdout' = log_warning(msg)
          /\ op' = Op("log_warning", msg, "", <<>>, <<>>)
    /\ UNCHANGED <<stage, katana_log, settings, startup_callbacks, menus, callback_map,
                   qt_base, fires>>
    /\ UNCHANGED hookVars

(***************************************************************************)
(* KatanaEngine.launch_command                                             *)
(***************************************************************************)
CommandIds == {"cmd1", "cmd2"}

Callbacks == {"cbA", "cbB"}

\* Every callback map: some of the command ids, each with a callback.
CallbackMaps == UNION {[S -> Callbacks] : S \in SUBSET CommandIds}

\* The attribute _callback_map of the engine.  No statement of the engine
\* assigns it: a constructed engine has no such attribute.
NoCallbackMap == [assigned |-> FALSE, map |-> <<>>]

\* self._callback_map.get(cmd_id)
MapGet(m, cmd_id) == IF cmd_id \in DOMAIN m THEN m[cmd_id] ELSE "None"

\* launch_command.  Reading self._callback_map raises AttributeError while the
\* attribute was never assigned.
launch_command(cm, cmd_id) ==
    IF ~cm.assigned
    THEN [raised |-> "AttributeError", invoked |-> <<>>, stdout |-> <<>>, map |-> cm]
    ELSE LET callback == MapGet(cm.map, cmd_id)
         IN  IF callback = "None"
             THEN [raised |-> "", invoked |-> <<>>,
                   stdout |-> log_error("No callback found for id: " \o cmd_id), map |-> cm]
             ELSE [raised |-> "", invoked |-> <<callback>>, stdout |-> <<>>, map |-> cm]

LaunchCommand ==
    /\ \E cmd_id \in CommandIds :
          LET r == launch_command(callback_map, cmd_id)
          IN  /\ callback_map' = r.map
              /\ stdout' = r.stdout
              /\ op' = Op("launch_command", cmd_id, r.raised, r.invoked, <<>>)
    /\ UNCHANGED <<stage, katana_log, settings, startup_callbacks, menus, qt_base, fires>>
    /\ UNCHANGED hookVars

\* Code outside the engine class (the framework's base class, the menu module)
\* may give the engine its callback map, at any time.
AssignCallbackMap ==
    /\ ~callback_map.assigned
    /\ \E m \in CallbackMaps : callback_map' = [assigned |-> TRUE, map |-> m]
    /\ stdout' = <<>>
    /\ op' = Op("assign _callback_map", "", "", <<>>, <<>>)
    /\ UNCHANGED <<stage, katana_log, settings, startup_callbacks, menus, qt_base, fires>>
    /\ UNCHANGED hookVars

(***************************************************************************)
(* KatanaEngine: lifecycle and the startup-complete callback               *)
(***************************************************************************)
\* init_engine: a debug line, then the logger.
init_engine(s) ==
    [stdout |-> log_debug(s, "engine: Initializing..."),
     katana_log |-> "Shotgun Katana Engine"]

\* A plausible slip: the callback is subscribed twice.
PostAppInitTwice(cbs) == Append(Append(cbs, "add_katana_menu"), "add_katana_menu")

\* Callbacks.addCallback(Callbacks.Type.onStartupComplete, self.add_katana_menu)
post_app_init(cbs) == Append(cbs, "add_katana_menu")

\* add_katana_menu: the menu name from the settings, a record to katana_log,
\* then MenuGenerator(self, menu_name).create_menu().  Without a logger the
\* attribute lookup self.katana_log raises before any menu is made.
add_katana_menu(s, log, ms) ==
    LET menu_name == IF get_setting(s, "use_sgtk_as_menu_name", FALSE) THEN "Sgtk"
                     ELSE "Shotgun"
    IN  IF log = "unset"
        THEN [raised |-> "AttributeError", menus |-> ms, logged |-> <<>>]
        ELSE [raised |-> "", menus |-> Append(ms, menu_name),
              logged |-> <<"Start creating shotgun menu.">>]

\* The host runs its subscribers in the order they subscribed.
RECURSIVE RunCallbacks(_, _, _, _, _)
RunCallbacks(cbs, i, s, log, acc) ==
    IF i > Len(cbs) \/ acc.raised # "" THEN acc
    ELSE LET r == add_katana_menu(s, log, acc.menus)
         IN  RunCallbacks(cbs, i + 1, s, log,
                          [raised |-> r.raised, menus |-> r.menus,
                           logged |-> acc.logged \o r.logged,
                           invoked |-> Append(acc.invoked, cbs[i])])

\* The framework drives the lifecycle in this order: init_engine, post_app_init,
\* destroy_engine.
InitEngine ==
    /\ stage = "constructed"
    /\ stage' = "initialized"
    /\ katana_log' = init_engine(settings).katana_log
    /\ stdout' = init_engine(settings).stdout
    /\ op' = Op("init_engine", "", "", <<>>, <<>>)
    /\ UNCHANGED <<settings, startup_callbacks, menus, callback_map, qt_base, fires>>
    /\ UNCHANGED hookVars

PostAppInit ==
    /\ stage = "initialized"
    /\ stage' = "running"
    /\ startup_callbacks' = post_app_init(startup_callbacks)
    /\ stdout' = <<>>
    /\ op' = Op("post_app_init", "", "", <<>>, <<>>)
    /\ UNCHANGED <<katana_log, settings, menus, callback_map, qt_base, fires>>
    /\ UNCHANGED hookVars

DestroyEngine ==
    /\ stage \in {"initialized", "running"}
    /\ stage' = "destroyed"
    /\ stdout' = log_debug(settings, "engine: Destroying...")
    /\ op' = Op("destroy_engine", "", "", <<>>, <<>>)
    /\ UNCHANGED <<katana_log, settings, startup_callbacks, menus, callback_map, qt_base,
                   fires>>
    /\ UNCHANGED hookVars

\* The host fires startup-complete, whenever it chooses to.
StartupComplete ==
    /\ fires < MaxFires
    /\ fires' = fires + 1
    /\ LET r == RunCallbacks(startup_callbacks, 1, settings, katana_log,
                             [raised |-> "", menus |-> menus, logged |-> <<>>,
                              invoked |-> <<>>])
       IN  /\ menus' = r.menus
           /\ op' = Op("onStartupComplete", "", r.raised, r.invoked, r.logged)
    /\ stdout' = <<>>
    /\ UNCHANGED <<stage, katana_log, settings, startup_callbacks, callback_map, qt_base>>
    /\ UNCHANGED hookVars

(***************************************************************************)
(* KatanaEngine._define_qt_base                                            *)
(***************************************************************************)
\* How the try block ends: without error, or with a statement that raises.
\* at: the statement
\*   import  the two PyQt4 import lines
\*   patch   one of the three hot-patch lines
\*   dialog  reading QtGui.QDialog
\*   log     building or writing the success line
\* raising: what is raised, as the except clauses tell it apart
\*   ImportError    caught by `except ImportError: pass`
\*   Exception      any other Exception subclass, caught by `except Exception, e`
\*   BaseException  outside the Exception hierarchy (KeyboardInterrupt,
\*                  SystemExit, an old-style class instance): caught by neither
\* handler: how the `except Exception, e` clause goes, when it is entered
\*   none     it runs to its end
\*   format   "...: %s" % e raises (str(e) fails, as for a non-ASCII unicode
\*            message), before anything is written
\*   warning  log_warning raises while writing
\*   debug    log_debug raises (get_setting, traceback.format_exc or the
\*            write), after the warning line was written
PyQtOk == [at |-> "none", raising |-> "", handler |-> "none"]

PyQtStatements == {"import", "patch", "dialog", "log"}

PyQtOutcomes ==
    {PyQtOk}
    \cup {[at |-> a, raising |-> k, handler |-> "none"] :
             a \in PyQtStatements, k \in {"ImportError", "BaseException"}}
    \cup {[at |-> a, raising |-> "Exception", handler |-> h] :
             a \in PyQtStatements, h \in {"none", "format", "warning", "debug"}}

\* The error that leaves the except clause, named after its usual instance.
HandlerRaises(handler) ==
    IF handler = "format" THEN "UnicodeEncodeError"
    ELSE IF handler = "warning" THEN "IOError"
    ELSE "RuntimeError"

\* What the caller holds when the probe raised: no dictionary.
NoBase == [qt_core |-> "", qt_gui |-> "", dialog_base |-> ""]

\* The dictionary as far as the try block filled it before it ended.
BaseReached(outcome) ==
    LET base0 == [qt_core |-> "QTProxy", qt_gui |-> "QTProxy", dialog_base |-> "None"]
        patched == outcome.at \notin {"import", "patch"}
        base1 == IF patched THEN [base0 EXCEPT !.qt_core = "QtCore", !.qt_gui = "QtGui"]
                 ELSE base0
    IN  IF patched /\ outcome.at # "dialog"
        THEN [base1 EXCEPT !.dialog_base = "QDialog"]
        ELSE base1

PyQtWarning == "Error setting up PyQt. PyQt based UI support will not be available"

\* A plausible slip: only ImportError is caught, any other error reaches the caller.
DefineQtBaseNarrowCatch(s, outcome) ==
    IF outcome = PyQtOk
    THEN [raised |-> "", base |-> BaseReached(outcome),
          stdout |-> log_debug(s, "Successfully initialized PyQt")]
    ELSE IF outcome.raising = "ImportError"
         THEN [raised |-> "", base |-> BaseReached(outcome), stdout |-> <<>>]
         ELSE [raised |-> outcome.raising, base |-> NoBase, stdout |-> <<>>]

_define_qt_base(s, outcome) ==
    IF outcome = PyQtOk
    THEN [raised |-> "", base |-> BaseReached(outcome),
          stdout |-> log_debug(s, "Successfully initialized PyQt")]
    ELSE IF outcome.raising = "ImportError"
         THEN [raised |-> "", base |-> BaseReached(outcome), stdout |-> <<>>]
         ELSE IF outcome.raising = "Exception"
              THEN IF outcome.handler = "none"
                   THEN [raised |-> "", base |-> BaseReached(outcome),
                         stdout |-> log_warning(PyQtWarning) \o log_debug(s, "traceback")]
                   ELSE IF outcome.handler = "debug"
                        THEN [raised |-> HandlerRaises(outcome.handler), base |-> NoBase,
                              stdout |-> log_warning(PyQtWarning)]
                        ELSE [raised |-> HandlerRaises(outcome.handler), base |-> NoBase,
                              stdout |-> <<>>]
              ELSE [raised |-> outcome.raising, base |-> NoBase, stdout |-> <<>>]

\* Reading any attribute of a handle.  QTProxy.__getattr__ raises TankError;
\* None has no attributes; a real module or class answers.
GetAttr(handle) ==
    IF handle = "QTProxy" THEN "TankError"
    ELSE IF handle = "None" THEN "AttributeError"
    ELSE ""

Unprobed == [probed |-> FALSE, outcome |-> PyQtOk, raised |-> "", qt_core |-> "",
             qt_gui |-> "", dialog_base |-> ""]

DefineQtBase ==
    /\ \E outcome \in PyQtOutcomes :
          LET r == _define_qt_base(settings, outcome)
          IN  /\ qt_base' = [probed |-> TRUE, outcome |-> outcome, raised |-> r.raised,
                             qt_core |-> r.base.qt_core, qt_gui |-> r.base.qt_gui,
                             dialog_base |-> r.base.dialog_base]
              /\ stdout' = r.stdout
              /\ op' = Op("_define_qt_base", outcome.at, r.raised, <<>>, <<>>)
    /\ UNCHANGED <<stage, katana_log, settings, startup_callbacks, menus, callback_map, fires>>
    /\ UNCHANGED hookVars

QtKeys == {"qt_core", "qt_gui", "dialog_base"}

\* An app reads an attribute of one of the handles the probe returned, when it
\* returned.
UseQtHandle ==
    /\ qt_base.probed
    /\ qt_base.raised = ""
    /\ \E key \in QtKeys :
          op' = Op("getattr", key, GetAttr(qt_base[key]), <<>>, <<>>)
    /\ stdout' = <<>>
    /\ UNCHANGED <<stage, katana_log, settings, startup_callbacks, menus, callback_map,
                   qt_base, fires>>
    /\ UNCHANGED hookVars

(***************************************************************************)
(* Specifications                                                          *)
(***************************************************************************)
GraphInit ==
    /\ nodes = <<>>
    /\ call = NoCall

EngineIdle ==
    /\ stage = "constructed"
    /\ katana_log = "unset"
    /\ startup_callbacks = <<>>
    /\ menus = <<>>
    /\ qt_base = Unprobed
    /\ fires = 0
    /\ stdout = <<>>
    /\ op = NoOp

\* The hook runs with debug logging on, off or unset.
DebugSettings == {s \in SettingsSpace : DOMAIN s \subseteq {"debug_logging"}}

\* generate_actions is a function of its action list: every list is tried.
InitGenerate ==
    /\ gen \in {[called |-> FALSE, actions |-> actions, action_instances |-> <<>>] :
                   actions \in ActionLists}
    /\ GraphInit
    /\ EngineIdle
    /\ settings \in DebugSettings
    /\ callback_map = NoCallbackMap

\* execute_action runs with debug logging switched on, or not set.
ExecuteSettings == {s \in DebugSettings : \A key \in DOMAIN s : s[key]}

InitExecute ==
    /\ gen = NoGen
    /\ GraphInit
    /\ EngineIdle
    /\ settings \in ExecuteSettings
    /\ callback_map = NoCallbackMap

\* The engine starts under any configuration, without a callback map.
InitEngineSpec ==
    /\ gen = NoGen
    /\ GraphInit
    /\ EngineIdle
    /\ settings \in SettingsSpace
    /\ callback_map = NoCallbackMap

InitQt ==
    /\ gen = NoGen
    /\ GraphInit
    /\ EngineIdle
    /\ settings \in SettingsSpace
    /\ callback_map = NoCallbackMap

NextGenerate == GenerateActions

NextExecute == ExecuteAction

NextEngine ==
    \/ InitEngine
    \/ PostAppInit
    \/ DestroyEngine
    \/ StartupComplete
    \/ LaunchCommand
    \/ AssignCallbackMap
    \/ LogDebug
    \/ LogInfo
    \/ LogError
    \/ LogWarning

NextQt ==
    \/ DefineQtBase
    \/ UseQtHandle

SpecGenerate == InitGenerate /\ [][NextGenerate]_vars

SpecExecute == InitExecute /\ [][NextExecute]_vars

SpecEngine == InitEngineSpec /\ [][NextEngine]_vars

SpecQt == InitQt /\ [][NextQt]_vars

(***************************************************************************)
(* Properties of generate_actions (SpecGenerate)                           *)
(***************************************************************************)
\* The positions of the result that carry a given name.
DescriptorsNamed(action_instances, name) ==
    {i \in DOMAIN action_instances : action_instances[i].name = name}

\* C1: generate_actions returns exactly one descriptor, with that name and a
\* non-empty caption and description, for each known name that occurs in the
\* input, however often it occurs; it returns no descriptor for any other name;
\* and an input of unknown names only yields the empty list.
C1_OneDescriptorPerKnownName ==
    gen.called =>
        /\ \A k \in KnownSet :
              Contains(gen.actions, k) =>
                 /\ Cardinality(DescriptorsNamed(gen.action_instances, k)) = 1
                 /\ \A i \in DescriptorsNamed(gen.action_instances, k) :
                       /\ gen.action_instances[i].caption # ""
                       /\ gen.action_instances[i].description # ""
        /\ \A i \in DOMAIN gen.action_instances :
              /\ gen.action_instances[i].name \in KnownSet
              /\ Contains(gen.actions, gen.action_instances[i].name)
        /\ (\A j \in DOMAIN gen.actions : gen.actions[j] \notin KnownSet) =>
              gen.action_instances = <<>>

\* A call whose list names a known action twice, next to an unknown one.
C1_Witness ==
    /\ gen.called
    /\ \E i, j \in DOMAIN gen.actions :
          i # j /\ gen.actions[i] = gen.actions[j] /\ gen.actions[i] \in KnownSet
    /\ \E j \in DOMAIN gen.actions : gen.actions[j] \in UnknownActions
    /\ Len(gen.action_instances) = 2

(***************************************************************************)
(* Properties of execute_action (SpecExecute)                              *)
(***************************************************************************)
\* The host API calls of a given kind that the last call made.
ApiCalls(fn) == {i \in DOMAIN call.api : call.api[i][1] = fn}

\* The last call ran node creation on a path that exists.
CreationRan == call.called /\ call.exists /\ call.name \in CreationActions

\* The host API calls of a run, with its node handles counted from a graph
\* that holds k nodes less.
ApiShifted(api, k) ==
    [i \in DOMAIN api |->
        IF api[i][1] \in {"getParameter", "setValue"}
        THEN <<api[i][1], NodeHandle(api[i][2][2] - k), api[i][3]>>
        ELSE api[i]]

\* The node at the end of the graph, the one a creation that just ran has made.
LastNode == nodes[Len(nodes)]

\* Reading the fields back out of the tokens of a written parameter value,
\* wherever in it they stand.
ParseFields(value) ==
    LET colons == {i \in 2..(Len(value) - 1) : value[i] = ":"}
        keys == {k \in FieldNames : \E i \in colons : value[i - 1] = Quote(k)}
    IN  [k \in keys |->
            CHOOSE v \in FieldValues :
               \E i \in colons : value[i - 1] = Quote(k) /\ value[i + 1] = Quote(v)]

\* The resolved fields other than "SEQ".
WithoutSEQ(fields) == [k \in (DOMAIN fields) \ {"SEQ"} |-> fields[k]]

\* C2, as stated: with a path that does not exist, execute_action raises for
\* every action name, before any node is created or any parameter set.
C2_FailsForEveryName ==
    (call.called /\ ~call.exists) =>
        /\ call.raised
        /\ ApiCalls("CreateNode") = {}
        /\ ApiCalls("setValue") = {}

\* C2, amended: with a path that does not exist, execute_action raises exactly
\* for the two node-creation names, and it raises before any host API call;
\* for every other name it returns without error; in no such run is a node
\* created or a parameter set, and the graph is as it was.
C2_FailsBeforeCreation ==
    (call.called /\ ~call.exists) =>
        /\ call.raised <=> call.name \in CreationActions
        /\ call.raised => call.error = "File not found on disk"
        /\ call.api = <<>>
        /\ nodes = call.before

\* A node-creation action on a missing path has raised.
C2_Witness ==
    /\ call.called
    /\ ~call.exists
    /\ call.name = "create_node_Alembic_In"
    /\ call.raised

\* The type and parameter name the spec gives for a node-creation action.
ExpectedType(name) == IF name = "create_node_Alembic_In" THEN "Alembic_In" ELSE "ImageRead"

ExpectedParameter(name) == IF name = "create_node_Alembic_In" THEN "abcAsset" ELSE "file"

\* What the two node-creation actions do when they get to the host: one
\* CreateNode call of the action's type under the root, one parameter set on
\* that node, the action's own.
MappingKept ==
    /\ Cardinality(ApiCalls("CreateNode")) = 1
    /\ \A i \in ApiCalls("CreateNode") :
          call.api[i] = <<"CreateNode", ExpectedType(call.name), "root">>
    /\ Cardinality(ApiCalls("setValue")) = 1
    /\ \A i \in ApiCalls("setValue") :
          call.api[i] = <<"setValue", NodeHandle(Len(nodes)), ExpectedParameter(call.name)>>
    /\ Len(nodes) = Len(call.before) + 1
    /\ LastNode.type = ExpectedType(call.name)
    /\ LastNode.parent = "root"
    /\ Len(LastNode.params) = 1
    /\ LastNode.params[1].name = ExpectedParameter(call.name)

\* C3: on a path that exists, create_node_Alembic_In makes exactly one
\* CreateNode call, of type Alembic_In under the root, and sets exactly the
\* parameter abcAsset of that node; create_node_ImageRead likewise with
\* ImageRead and file; no other parameter of the node is set.
C3_TypeAndParameterMapping ==
    CreationRan =>
        /\ ~call.raised
        /\ MappingKept

\* What the code keeps of the mapping: when the toolkit resolves the path the
\* mapping is as stated, and when it does not, the toolkit's error leaves
\* execute_action before any host call and the graph is as it was.
MappingWhenResolved ==
    CreationRan =>
        /\ call.raised <=> call.toolkit # "resolved"
        /\ ~call.raised => MappingKept
        /\ call.raised =>
              /\ call.error = (IF call.toolkit = "no_project" THEN "TankError"
                               ELSE "AttributeError")
              /\ call.api = <<>>
              /\ nodes = call.before

\* C4: the value written into the asset parameter never holds the "SEQ" field;
\* every other resolved field is in it with its value, the template name is in
\* it, and without "SEQ" among the resolved fields they are written as resolved.
C4_NoSEQInParameter ==
    (CreationRan /\ ~call.raised) =>
        LET value == LastNode.params[1].value
        IN  /\ \A i \in DOMAIN value : value[i] # Quote("SEQ")
            /\ ParseFields(value) = WithoutSEQ(call.fields)
            /\ \E i \in 1..(Len(value) - 2) :
                  /\ value[i] = Quote("template")
                  /\ value[i + 1] = ":"
                  /\ value[i + 2] = Quote(call.template)
            /\ "SEQ" \notin DOMAIN call.fields => ParseFields(value) = call.fields

\* A creation whose resolved fields held "SEQ" and two more fields.
C4_Witness ==
    /\ CreationRan
    /\ ~call.raised
    /\ DOMAIN call.fields = {"SEQ", "Shot", "version"}
    /\ call.fields["Shot"] # call.fields["version"]
    /\ Len(LastNode.params) = 1

\* C6, as stated: execute_action hands the created node's handle to its caller.
C6_ExecuteReturnsNode ==
    (CreationRan /\ ~call.raised) => call.ret = NodeHandle(Len(nodes))

\* C6, amended: when the toolkit resolves the path, _create_node returns the
\* handle of the node it created; execute_action drops that value and returns
\* None to its caller.  When the toolkit does not resolve the path, its error
\* leaves execute_action, nothing is returned and no node is created.
C6_CreateNodeReturnsNode ==
    CreationRan =>
        /\ call.raised <=> call.toolkit # "resolved"
        /\ ~call.raised =>
              /\ call.node_ret = NodeHandle(Len(nodes))
              /\ Len(nodes) = Len(call.before) + 1
              /\ call.ret = NoneValue
        /\ call.raised =>
              /\ call.node_ret = NoneValue
              /\ call.ret = NoneValue
              /\ nodes = call.before

\* A creation has run and left its node in the graph.
C6_Witness ==
    /\ CreationRan
    /\ ~call.raised
    /\ call.node_ret = NodeHandle(1)
    /\ Len(nodes) = 1

\* C10: for open_project, import_look_file and any unrecognised name,
\* execute_action creates no node, sets no parameter and raises nothing,
\* whether or not the path exists; and a call's outcome does not depend on the
\* calls before it: on the graph they left it raises, returns, calls the host
\* and adds to the graph exactly what the same call, with the same answers of
\* the file system and the toolkit, does on an empty graph, node handles
\* counted from the end of the graph it found.
C10_NonCreationLeavesGraph ==
    call.called =>
        /\ call.name \notin CreationActions =>
              /\ nodes = call.before
              /\ call.api = <<>>
              /\ ~call.raised
              /\ call.ret = NoneValue
        /\ LET alone == execute_action(call.name, call.exists, call.toolkit, call.template,
                                       call.fields, call.walk, <<>>)
               k == Len(call.before)
           IN  /\ call.raised = alone.raised
               /\ call.error = alone.error
               /\ call.ret = alone.ret
               /\ nodes = call.before \o alone.nodes
               /\ ApiShifted(call.api, k) = alone.api
               /\ call.node_ret # NoneValue =>
                     NodeHandle(call.node_ret[2] - k) = alone.node_ret

\* import_look_file has run on a missing path and left alone a graph of two
\* nodes, the second of which an earlier call created next to the first.
C10_Witness ==
    /\ call.called
    /\ call.name = "import_look_file"
    /\ ~call.exists
    /\ ~call.raised
    /\ Len(nodes) = 2
    /\ nodes[1].type = "Alembic_In"
    /\ nodes[2].type = "ImageRead"
    /\ nodes = call.before

\* A creation has run on a graph that an earlier creation had filled.
CreationOnFilledGraph ==
    /\ CreationRan
    /\ ~call.raised
    /\ Len(call.before) = 1
    /\ Len(nodes) = 2

(***************************************************************************)
(* Properties of the Qt probe (SpecQt)                                     *)
(***************************************************************************)
\* The three handles of the returned dictionary are the real PyQt ones.
AllUsable ==
    /\ qt_base.qt_core = "QtCore"
    /\ qt_base.qt_gui = "QtGui"
    /\ qt_base.dialog_base = "QDialog"

\* The import statements of the try block went through.
Imported == qt_base.outcome.at # "import"

\* C5, as stated: the probe never raises; when the bindings import it returns
\* the usable core, gui and dialog-base handles; otherwise each handle is a
\* stand-in that raises the toolkit error when an attribute of it is used.
C5_UsableOrStandIns ==
    qt_base.probed =>
        /\ qt_base.raised = ""
        /\ Imported => AllUsable
        /\ ~Imported => \A key \in QtKeys : GetAttr(qt_base[key]) = "TankError"

\* The probe's except clause for other errors was entered and raised itself.
HandlerFailed == qt_base.outcome.raising = "Exception" /\ qt_base.outcome.handler # "none"

\* C5, amended: the probe does not raise for an ImportError, at whatever
\* statement of set-up, nor for any other error of the Exception hierarchy
\* that it manages to report; an exception outside that hierarchy, or one
\* raised while reporting, reaches the caller and no handles are returned.
\* When set-up runs to its end, or fails only at the success line, the probe
\* returns the usable core, gui and dialog-base handles.  When the import or
\* the hot patch fails, core and gui are stand-ins that raise the toolkit error
\* only when an attribute of them is used, and the dialog base is None, no
\* stand-in.  When reading the dialog class fails, core and gui are the real
\* ones and the dialog base is None.
C5_ProbeNeverRaises ==
    /\ qt_base.probed =>
          /\ qt_base.raised = "" <=>
                (qt_base.outcome.raising # "BaseException" /\ ~HandlerFailed)
          /\ qt_base.raised = "" =>
                /\ qt_base.outcome.at \in {"none", "log"} => AllUsable
                /\ qt_base.outcome.at \in {"import", "patch"} =>
                      /\ qt_base.qt_core = "QTProxy"
                      /\ qt_base.qt_gui = "QTProxy"
                      /\ qt_base.dialog_base = "None"
                /\ qt_base.outcome.at = "dialog" =>
                      /\ qt_base.qt_core = "QtCore"
                      /\ qt_base.qt_gui = "QtGui"
                      /\ qt_base.dialog_base = "None"
          /\ qt_base.raised # "" => \A key \in QtKeys : qt_base[key] = ""
    /\ op.name = "getattr" =>
          /\ op.raised = "TankError" <=> qt_base[op.arg] = "QTProxy"
          /\ op.raised = "" <=> qt_base[op.arg] \in {"QtCore", "QtGui", "QDialog"}

\* After a failed import the probe has returned, and the first use of the core
\* stand-in has raised the toolkit error.
C5_Witness ==
    /\ qt_base.probed
    /\ qt_base.outcome = [at |-> "import", raising |-> "ImportError", handler |-> "none"]
    /\ qt_base.raised = ""
    /\ op.name = "getattr"
    /\ op.arg = "qt_core"
    /\ op.raised = "TankError"

(***************************************************************************)
(* Properties of the engine (SpecEngine)                                   *)
(***************************************************************************)
\* The command id of the last operation has a registered callback.
Registered == callback_map.assigned /\ op.arg \in DOMAIN callback_map.map

\* What launch_command has done when it was the last operation.
LaunchOutcome ==
    op.name = "launch_command" =>
        /\ op.raised = ""
        /\ ~Registered =>
              /\ op.invoked = <<>>
              /\ stdout = <<"Shotgun: No callback found for id: " \o op.arg,
                            "Shotgun Error: No callback found for id: " \o op.arg>>
        /\ Registered =>
              /\ op.invoked = <<callback_map.map[op.arg]>>
              /\ stdout = <<>>

\* C7: launch_command with an id that has no callback logs an error and
\* returns normally, invoking nothing; with an id that has a callback it
\* invokes exactly that callback once and logs nothing; it leaves the callback
\* map as it was.
C7_LaunchCommandSwallows ==
    /\ []LaunchOutcome
    /\ [][op'.name = "launch_command" => callback_map' = callback_map]_vars

\* What of C7 the engine does keep: once a callback map has been assigned,
\* launch_command behaves as C7 says.
LaunchOutcomeOnceAssigned ==
    /\ [](callback_map.assigned => LaunchOutcome)
    /\ [](op.name = "launch_command" =>
             (op.raised = "AttributeError" <=> ~callback_map.assigned))
    /\ [][op'.name = "launch_command" => callback_map' = callback_map]_vars

\* What holds of the subscription and the menus in every state.
MenuState ==
    /\ Len(startup_callbacks) <= 1
    /\ stage = "running" => startup_callbacks = <<"add_katana_menu">>
    /\ startup_callbacks # <<>> => katana_log # "unset"
    /\ stage \in {"constructed", "initialized"} => startup_callbacks = <<>>
    /\ Len(menus) <= fires
    /\ startup_callbacks = <<>> => menus = <<>>
    /\ op.name = "onStartupComplete" => op.raised = ""

\* What holds of every step that subscribes, fires or builds.
MenuStep ==
    /\ startup_callbacks' # startup_callbacks =>
          /\ stage = "initialized" /\ stage' = "running"
          /\ startup_callbacks = <<>>
          /\ startup_callbacks' = <<"add_katana_menu">>
          /\ menus' = menus
          /\ fires' = fires
    /\ menus' # menus =>
          /\ fires' = fires + 1
          /\ startup_callbacks # <<>>
    /\ fires' # fires =>
          /\ fires' = fires + 1
          /\ Len(menus') = Len(menus) + (IF startup_callbacks # <<>> THEN 1 ELSE 0)
          /\ \A i \in DOMAIN menus : menus'[i] = menus[i]

\* C8: post_app_init subscribes exactly one callback to startup-complete and
\* builds no menu; no menu exists before the host fires the event with the
\* callback subscribed; each such firing builds the menu once; and whenever
\* the callback is subscribed init_engine has already set the logger, so menu
\* creation never fails for want of it.
C8_MenuBuiltOnlyByHostEvent ==
    /\ []MenuState
    /\ [][MenuStep]_vars

\* The host has fired twice after the subscription, and two menus were built.
C8_Witness ==
    /\ startup_callbacks = <<"add_katana_menu">>
    /\ fires = 2
    /\ Len(menus) = 2
    /\ op.name = "onStartupComplete"
    /\ op.invoked = <<"add_katana_menu">>

\* What log_debug has printed when it was the last operation.
DebugOutput ==
    op.name = "log_debug" =>
        /\ ("debug_logging" \in DOMAIN settings /\ settings["debug_logging"]) =>
              stdout = <<"Shotgun Debug: " \o op.arg>>
        /\ ("debug_logging" \notin DOMAIN settings \/ ~settings["debug_logging"]) =>
              stdout = <<>>

\* C9: a debug log call prints its message, prefixed "Shotgun Debug:", exactly
\* when the debug_logging setting is true, and prints nothing when it is false
\* or unset; the call changes no engine state.
C9_DebugLoggingGated ==
    /\ []DebugOutput
    /\ [][op'.name = "log_debug" =>
             UNCHANGED <<stage, katana_log, settings, startup_callbacks, menus,
                         callback_map, qt_base, fires>>]_vars

\* log_debug has run with the setting unset, and has printed nothing.
C9_Witness ==
    /\ op.name = "log_debug"
    /\ "debug_logging" \notin DOMAIN settings
    /\ stdout = <<>>

====
